---- MODULE Spec2Model ----
(***************************************************************************)
(* KURA PAK Tool: SimplePakTool.unpack_pak_file and unpack_uasset_file of  *)
(* src/main.py, called from two threads (as the worker threads that        *)
(* KuraPAKTool.unpack_file starts call them) over a shared file system.    *)
(***************************************************************************)
EXTENDS Integers, Sequences, FiniteSets, TLC

VARIABLES
    filepath,         \* the filepath argument: <<directory, basename>>
    dirs,             \* directories that exist
    fs,               \* files that exist: path -> contents
    pc,               \* per thread: position in the call it runs
    call,             \* per thread: the function it was started on
    data,             \* per thread: the bytes f.read() returned
    pos,              \* per thread: scan position of the while loop
    extracted,        \* per thread: the list `extracted`
    uasset_positions, \* per thread: the list `uasset_positions`
    result,           \* per thread: the dict the call returned
    attempts,         \* per thread, history: <<pos, ok>> of every try block entered
    startedAfter,     \* per thread, history: the other call had returned when this one began
    outAtReturn,      \* per thread, history: the output directory's files when the call returned
    faults,           \* number of I/O errors raised so far
    clock,            \* the time datetime.now() returned last
    cancelRequested   \* the cancellation signal of the specification (the code has none)

vars == <<filepath, dirs, fs, pc, call, data, pos, extracted, uasset_positions, result,
          attempts, startedAfter, outAtReturn, faults, clock, cancelRequested>>

\* ---------------------------------------------------------------- bounds
MaxFaults == 2      \* most I/O errors the environment raises in one behaviour

Threads == {1, 2}
Other(t) == 3 - t

\* ---------------------------------------------------------------- constants of the code
MinPakSize == 100
ChunkBefore == 500
ChunkAfter == 1500
MinStringLen == 4
MaxStrings == 20
HexBytes == 100

\* b'.uasset'
search_bytes == <<46, 117, 97, 115, 115, 101, 116>>

OutDir == "out"            \* the output_dir argument of unpack_pak_file
UaDir == "uassets"         \* the output_dir argument of unpack_uasset_file
InfoName == "_pak_info.txt"

\* ---------------------------------------------------------------- pure helpers
MinOf(S) == CHOOSE x \in S : \A y \in S : x <= y
Max2(a, b) == IF a >= b THEN a ELSE b
Min2(a, b) == IF a <= b THEN a ELSE b

\* Python d[a:b] for a, b >= 0
Slice(d, a, b) == SubSeq(d, a + 1, Min2(b, Len(d)))

\* Python d.find(sub, from): lowest index >= from at which sub occurs, else -1
Find(d, sub, from) ==
    LET hits == {p \in from .. (Len(d) - Len(sub)) :
                    \A j \in 1 .. Len(sub) : d[p + j] = sub[j]}
    IN  IF hits = {} THEN -1 ELSE MinOf(hits)

\* every index at which sub occurs in d
Occurrences(d, sub) ==
    {p \in 0 .. (Len(d) - Len(sub)) : \A j \in 1 .. Len(sub) : d[p + j] = sub[j]}

ChunkStart(d, p) == Max2(0, p - ChunkBefore)
\* end without the clamp to len(data)
ChunkEnd_Unclamped(d, p) == p + ChunkAfter
ChunkEnd(d, p) == Min2(Len(d), p + ChunkAfter)
\* the 1 KB around the position that the comment of the code announces
Chunk_1KB(d, p) == Slice(d, ChunkStart(d, p), Min2(Len(d), p + ChunkBefore))
Chunk(d, p) == Slice(d, ChunkStart(d, p), ChunkEnd(d, p))

\* the entry number taken from a list shared by all calls
EntryName_Shared(ex) ==
    "file_" \o ToString(Len(extracted[1]) + Len(extracted[2])) \o ".uasset"
\* f"file_{len(extracted)}.uasset"
EntryName(ex) == "file_" \o ToString(Len(ex)) \o ".uasset"

\* f"{os.path.basename(filepath)}_analysis.txt"
AnalysisName(path) == path[2] \o "_analysis.txt"

InfoText(path, d, now) == [pak |-> path[2], size |-> Len(d), date |-> now]

\* hashlib.md5(data).hexdigest() / hashlib.sha1(data).hexdigest(): a digest is
\* abstracted to the algorithm, the length and a 16-bit sum of bytes lo..hi
RECURSIVE ByteSum(_, _, _)
ByteSum(d, lo, hi) ==
    IF lo > hi THEN 0
    ELSE IF lo = hi THEN d[lo]
    ELSE LET mid == (lo + hi) \div 2
         IN  (ByteSum(d, lo, mid) + ByteSum(d, mid + 1, hi)) % 65536
Digest(alg, d) == <<alg, Len(d), ByteSum(d, 1, Len(d))>>

\* ' '.join(f'{b:02x}' for b in data[:100]): two hex digits per byte
HexDump(d) == [i \in 1 .. Min2(HexBytes, Len(d)) |-> <<d[i] \div 16, d[i] % 16>>]

\* 32 <= b <= 126
Printable(b) == 32 <= b /\ b <= 126

\* len(current) when the loop `for b in data` reaches byte i (1-based): the
\* printable bytes that directly precede it, `current` being emptied by every
\* other byte
CurrentLen(d, i) ==
    CHOOSE n \in 0 .. (i - 1) :
        /\ \A k \in 1 .. n : Printable(d[i - k])
        /\ n = i - 1 \/ ~Printable(d[i - n - 1])

\* the bytes at which the loop appends `current` to `strings`: the else branch
\* with len(current) >= 4 (the four bytes before it are looked at first to
\* keep the evaluation short)
AppendPoints(d) ==
    {i \in (MinStringLen + 1) .. Len(d) :
        /\ ~Printable(d[i])
        /\ \A k \in 1 .. MinStringLen : Printable(d[i - k])
        /\ CurrentLen(d, i) >= MinStringLen}

\* the list `strings` when the loop `for b in data` ends: the n-th string is
\* `current` at the n-th of these bytes
FoundStrings(d) ==
    LET points == AppendPoints(d)
    IN  [n \in 1 .. Cardinality(points) |->
            LET i == CHOOSE i \in points : Cardinality({j \in points : j <= i}) = n
            IN  SubSeq(d, i - CurrentLen(d, i), i - 1)]

AnalysisText(path, d) ==
    [file    |-> path[2],
     size    |-> Len(d),
     md5     |-> Digest("md5", d),
     sha1    |-> Digest("sha1", d),
     hex     |-> IF Len(d) > HexBytes THEN HexDump(d) ELSE <<>>,
     strings |-> SubSeq(FoundStrings(d), 1, Min2(MaxStrings, Len(FoundStrings(d))))]

\* ---------------------------------------------------------------- input files
BigLen == 1510

\* a file of L bytes: the pattern at every offset of M, the pattern cut short
\* by the end of the file in the last 6 bytes, bytes 0..4 elsewhere
MakeData(L, M) ==
    LET byte(i) ==
            IF \E p \in M : p < i /\ i <= p + 7
                THEN search_bytes[i - (CHOOSE p \in M : p < i /\ i <= p + 7)]
            ELSE IF i > L - 6 THEN search_bytes[i - (L - 6)]
            ELSE i % 5
    IN  SubSeq([i \in 1 .. L |-> byte(i)], 1, L)

PakPath == <<"dl", "game.pak">>
EntryPath == <<OutDir, "file_1.uasset">>

\* the calls' filepath argument and the file it names: a file outside the
\* output directory (one byte too short; of the least size without the
\* pattern; of the least size with the pattern at its first byte, right after
\* and at its very end; a large one with the pattern near the start and in
\* the middle) and a file lying in the output directory under the name of
\* the first entry
Inputs ==
    {<<PakPath, MakeData(MinPakSize - 1, {0})>>,
     <<PakPath, MakeData(MinPakSize, {})>>,
     <<PakPath, MakeData(MinPakSize, {0, 7, MinPakSize - 7})>>,
     <<PakPath, MakeData(BigLen, {0, 600})>>,
     <<EntryPath, MakeData(BigLen, {600})>>}

NoResult == [pending |-> TRUE]

\* the state before any call, the file `in` chosen
InitWith(in) ==
    /\ filepath = in[1]
    /\ fs = (in[1] :> in[2])
    /\ dirs = {filepath[1]}
    /\ pc = [t \in Threads |-> "idle"]
    /\ call = [t \in Threads |-> "none"]
    /\ data = [t \in Threads |-> <<>>]
    /\ pos = [t \in Threads |-> 0]
    /\ extracted = [t \in Threads |-> <<>>]
    /\ uasset_positions = [t \in Threads |-> <<>>]
    /\ result = [t \in Threads |-> NoResult]
    /\ attempts = [t \in Threads |-> <<>>]
    /\ startedAfter = [t \in Threads |-> FALSE]
    /\ outAtReturn = [t \in Threads |-> <<>>]
    /\ faults = 0
    /\ clock = 0
    /\ cancelRequested = FALSE

Init == \E in \in Inputs : InitWith(in)

\* ---------------------------------------------------------------- file system
\* the files of the output directory of unpack_pak_file
OutputFiles(f) == [p \in {q \in DOMAIN f : q[1] = OutDir} |-> f[p]]

\* the entry files opened for appending
EntryOpenMode_Append == "ab"
\* the mode the entry files are opened in
EntryOpenMode == "wb"

\* open(path, mode) for writing: 'w'/'wb' leave the file existing and empty,
\* 'a'/'ab' create it when missing and keep what it holds
Opened(f, path, mode) ==
    IF mode \in {"a", "ab"} /\ path \in DOMAIN f THEN f ELSE (path :> <<>>) @@ f

\* a write of `bytes` through a handle opened earlier in `mode`: at offset 0
\* for 'w'/'wb' (whatever another handle wrote beyond them since stays), at
\* the end of the file for 'a'/'ab'
Written(old, bytes, mode) ==
    IF mode \in {"a", "ab"} THEN old \o bytes
    ELSE bytes \o SubSeq(old, Len(bytes) + 1, Len(old))

\* what a write that raises may leave of the bytes it was given
PartialLens(bytes) == {0, Len(bytes) \div 2}

Failure(msg) == [success |-> FALSE, error |-> msg]

Return(t, r, f) ==
    /\ pc' = [pc EXCEPT ![t] = "done"]
    /\ result' = [result EXCEPT ![t] = r]
    /\ outAtReturn' = [outAtReturn EXCEPT ![t] = OutputFiles(f)]

Fault == /\ faults < MaxFaults
         /\ faults' = faults + 1

\* ---------------------------------------------------------------- unpack_pak_file
\* with open(filepath, 'rb') as f: data = f.read(); if len(data) < 100: return
PakRead(t) ==
    /\ pc[t] = "idle"
    /\ call' = [call EXCEPT ![t] = "unpack_pak_file"]
    /\ startedAfter' = [startedAfter EXCEPT ![t] = (pc[Other(t)] = "done")]
    /\ \/ /\ Fault
          /\ Return(t, Failure("OSError"), fs)
          /\ UNCHANGED data
       \/ /\ data' = [data EXCEPT ![t] = fs[filepath]]
          /\ IF Len(fs[filepath]) < MinPakSize
                THEN Return(t, Failure("File too small"), fs)
                ELSE /\ pc' = [pc EXCEPT ![t] = "mkdir"]
                     /\ UNCHANGED <<result, outAtReturn>>
          /\ UNCHANGED faults
    /\ UNCHANGED <<filepath, dirs, fs, pos, extracted, uasset_positions, attempts,
                   clock, cancelRequested>>

\* output_dir.mkdir(parents=True, exist_ok=True)
PakMkdir(t) ==
    /\ pc[t] = "mkdir"
    /\ \/ /\ Fault
          /\ Return(t, Failure("OSError"), fs)
          /\ UNCHANGED dirs
       \/ /\ dirs' = dirs \cup {OutDir}
          /\ pc' = [pc EXCEPT ![t] = "info_open"]
          /\ UNCHANGED <<result, outAtReturn, faults>>
    /\ UNCHANGED <<filepath, call, fs, data, pos, extracted, uasset_positions, attempts,
                   startedAfter, clock, cancelRequested>>

\* with open(info_file, 'w') as f:
PakInfoOpen(t) ==
    /\ pc[t] = "info_open"
    /\ \/ /\ Fault
          /\ Return(t, Failure("OSError"), fs)
          /\ UNCHANGED fs
       \/ /\ fs' = Opened(fs, <<OutDir, InfoName>>, "w")
          /\ pc' = [pc EXCEPT ![t] = "info_write"]
          /\ UNCHANGED <<result, outAtReturn, faults>>
    /\ UNCHANGED <<filepath, call, dirs, data, pos, extracted, uasset_positions, attempts,
                   startedAfter, clock, cancelRequested>>

\* the three f.write calls and the close of the info file, then
\* extracted.append("_pak_info.txt"); uasset_positions = []; pos = 0
PakInfoWrite(t) ==
    /\ pc[t] = "info_write"
    /\ \/ /\ Fault
          /\ Return(t, Failure("OSError"), fs)
          /\ UNCHANGED <<fs, extracted, clock>>
       \/ /\ clock' = clock + 1
          /\ fs' = [fs EXCEPT ![<<OutDir, InfoName>>] =
                                  InfoText(filepath, data[t], clock + 1)]
          /\ extracted' = [extracted EXCEPT ![t] = <<InfoName>>]
          /\ pc' = [pc EXCEPT ![t] = "scan"]
          /\ UNCHANGED <<result, outAtReturn, faults>>
    /\ UNCHANGED <<filepath, call, dirs, data, pos, uasset_positions, attempts,
                   startedAfter, cancelRequested>>

\* the exception leaves the call through the outer handler
EntryFailed_Abort(t, p, f) ==
    /\ attempts' = [attempts EXCEPT ![t] = Append(@, <<p, FALSE>>)]
    /\ pos' = [pos EXCEPT ![t] = p]
    /\ Return(t, Failure("OSError"), f)

\* the loop goes on without pos += 1
EntryFailed_NoAdvance(t, p, f) ==
    /\ attempts' = [attempts EXCEPT ![t] = Append(@, <<p, FALSE>>)]
    /\ pos' = [pos EXCEPT ![t] = p]
    /\ pc' = [pc EXCEPT ![t] = "scan"]
    /\ UNCHANGED <<result, outAtReturn>>

\* an exception in the try block of the entry at p, the files being f
\* afterwards: `except: pass`, then pos += 1 and the next pass of the loop
EntryFailed(t, p, f) ==
    /\ attempts' = [attempts EXCEPT ![t] = Append(@, <<p, FALSE>>)]
    /\ pos' = [pos EXCEPT ![t] = p + 1]
    /\ pc' = [pc EXCEPT ![t] = "scan"]
    /\ UNCHANGED <<result, outAtReturn>>

Success(t) ==
    [success         |-> TRUE,
     files_extracted |-> Len(extracted[t]),
     output_dir      |-> OutDir,
     file_list       |-> extracted[t]]

\* one pass from the loop test to the open of the entry's file:
\* while pos < len(data): pos = data.find(search_bytes, pos); if pos == -1: break;
\* start, end, filename, out_path; open(out_path, 'wb'); a failed open is
\* swallowed by `except: pass` and followed by pos += 1; leaving the loop returns
PakScan(t) ==
    /\ pc[t] = "scan"
    /\ LET found == IF pos[t] < Len(data[t])
                        THEN Find(data[t], search_bytes, pos[t]) ELSE -1
           out_path == <<OutDir, EntryName(extracted[t])>>
       IN  IF pos[t] < Len(data[t]) /\ found # -1
           THEN \/ /\ fs' = Opened(fs, out_path, EntryOpenMode)
                   /\ pos' = [pos EXCEPT ![t] = found]
                   /\ pc' = [pc EXCEPT ![t] = "write"]
                   /\ UNCHANGED <<attempts, faults, result, outAtReturn>>
                \/ /\ Fault
                   /\ EntryFailed(t, found, fs)
                   /\ UNCHANGED fs
           ELSE /\ pos' = [pos EXCEPT ![t] = IF pos[t] < Len(data[t]) THEN found ELSE @]
                /\ Return(t, Success(t), fs)
                /\ UNCHANGED <<fs, attempts, faults>>
    /\ UNCHANGED <<filepath, call, dirs, data, extracted, uasset_positions, startedAfter,
                   clock, cancelRequested>>

\* f.write(data[start:end]) and the close of the entry's file, then
\* extracted.append(filename); uasset_positions.append(pos); pos += 1; a failed
\* write is an exception in the try block
PakWrite(t) ==
    /\ pc[t] = "write"
    /\ LET out_path == <<OutDir, EntryName(extracted[t])>>
           bytes == Chunk(data[t], pos[t])
       IN  \/ /\ fs' = [fs EXCEPT ![out_path] = Written(@, bytes, EntryOpenMode)]
              /\ extracted' = [extracted EXCEPT ![t] = Append(@, out_path[2])]
              /\ uasset_positions' = [uasset_positions EXCEPT ![t] = Append(@, pos[t])]
              /\ attempts' = [attempts EXCEPT ![t] = Append(@, <<pos[t], TRUE>>)]
              /\ pos' = [pos EXCEPT ![t] = @ + 1]
              /\ pc' = [pc EXCEPT ![t] = "scan"]
              /\ UNCHANGED <<faults, result, outAtReturn>>
           \/ /\ Fault
              /\ \E n \in PartialLens(bytes) :
                    fs' = [fs EXCEPT ![out_path] =
                                        Written(@, SubSeq(bytes, 1, n), EntryOpenMode)]
              /\ EntryFailed(t, pos[t], fs')
              /\ UNCHANGED <<extracted, uasset_positions>>
    /\ UNCHANGED <<filepath, call, dirs, data, startedAfter, clock, cancelRequested>>

\* ---------------------------------------------------------------- unpack_uasset_file
\* with open(filepath, 'rb') as f: data = f.read()
UaRead(t) ==
    /\ pc[t] = "idle"
    /\ call' = [call EXCEPT ![t] = "unpack_uasset_file"]
    /\ startedAfter' = [startedAfter EXCEPT ![t] = (pc[Other(t)] = "done")]
    /\ \/ /\ Fault
          /\ Return(t, Failure("OSError"), fs)
          /\ UNCHANGED data
       \/ /\ data' = [data EXCEPT ![t] = fs[filepath]]
          /\ pc' = [pc EXCEPT ![t] = "ua_mkdir"]
          /\ UNCHANGED <<result, outAtReturn, faults>>
    /\ UNCHANGED <<filepath, dirs, fs, pos, extracted, uasset_positions, attempts,
                   clock, cancelRequested>>

\* output_dir.mkdir(parents=True, exist_ok=True)
UaMkdir(t) ==
    /\ pc[t] = "ua_mkdir"
    /\ \/ /\ Fault
          /\ Return(t, Failure("OSError"), fs)
          /\ UNCHANGED dirs
       \/ /\ dirs' = dirs \cup {UaDir}
          /\ pc' = [pc EXCEPT ![t] = "ua_open"]
          /\ UNCHANGED <<result, outAtReturn, faults>>
    /\ UNCHANGED <<filepath, call, fs, data, pos, extracted, uasset_positions, attempts,
                   startedAfter, clock, cancelRequested>>

\* with open(analysis_file, 'w') as f:
UaOpen(t) ==
    /\ pc[t] = "ua_open"
    /\ \/ /\ Fault
          /\ Return(t, Failure("OSError"), fs)
          /\ UNCHANGED fs
       \/ /\ fs' = Opened(fs, <<UaDir, AnalysisName(filepath)>>, "w")
          /\ pc' = [pc EXCEPT ![t] = "ua_write"]
          /\ UNCHANGED <<result, outAtReturn, faults>>
    /\ UNCHANGED <<filepath, call, dirs, data, pos, extracted, uasset_positions, attempts,
                   startedAfter, clock, cancelRequested>>

\* the body of the with block (header lines, hex dump, string scan, strings)
\* and the close of the analysis file, then the return
UaWrite(t) ==
    /\ pc[t] = "ua_write"
    /\ LET analysis_file == <<UaDir, AnalysisName(filepath)>>
       IN  \/ /\ Fault
              /\ Return(t, Failure("OSError"), fs)
              /\ UNCHANGED fs
           \/ /\ fs' = [fs EXCEPT ![analysis_file] = AnalysisText(filepath, data[t])]
              /\ Return(t, [success |-> TRUE, analysis_file |-> analysis_file], fs')
              /\ UNCHANGED faults
    /\ UNCHANGED <<filepath, call, dirs, data, pos, extracted, uasset_positions, attempts,
                   startedAfter, clock, cancelRequested>>

\* ---------------------------------------------------------------- specifications
Running(t) == pc[t] \notin {"idle", "done"}

\* the cooperative cancellation signal of the specification, raised while a
\* call runs; nothing in src/main.py reads it
RequestCancel ==
    /\ ~cancelRequested
    /\ \E t \in Threads : Running(t)
    /\ cancelRequested' = TRUE
    /\ UNCHANGED <<filepath, call, dirs, fs, pc, data, pos, extracted, uasset_positions,
                   result, attempts, startedAfter, outAtReturn, faults, clock>>

PakStep(t) ==
    \/ PakRead(t)
    \/ PakMkdir(t)
    \/ PakInfoOpen(t)
    \/ PakInfoWrite(t)
    \/ PakScan(t)
    \/ PakWrite(t)

UaStep(t) ==
    \/ UaRead(t)
    \/ UaMkdir(t)
    \/ UaOpen(t)
    \/ UaWrite(t)

Step(t) == PakStep(t) \/ UaStep(t)

Next == \E t \in Threads : Step(t)

Spec == Init /\ [][Next]_vars

\* the calls of unpack_pak_file alone on the files of the least size, each
\* thread scheduled again and again until its call returns
PakNext == \E t \in Threads : PakStep(t)

\* the files of the least size
SmallInputs == {in \in Inputs : Len(in[2]) <= MinPakSize}

FairInit == \E in \in SmallInputs : InitWith(in)

FairSpec == FairInit /\ [][PakNext]_vars /\ \A t \in Threads : WF_vars(PakStep(t))

NextCancel == Next \/ RequestCancel

SpecCancel == Init /\ [][NextCancel]_vars

\* one call of unpack_uasset_file on every short file of bytes on either side
\* of the upper limit of `32 <= b <= 126`
MaxScanLen == 10

ScanBytes == {126, 127}

UassetPath == <<"dl", "hero.uasset">>

ScanInputs ==
    {<<UassetPath, d>> : d \in UNION {[1 .. n -> ScanBytes] : n \in 0 .. MaxScanLen}}

ScanInit == \E in \in ScanInputs : InitWith(in)

ScanNext == UaStep(1)

ScanSpec == ScanInit /\ [][ScanNext]_vars

\* ---------------------------------------------------------------- claims
PakDone(t) == call[t] = "unpack_pak_file" /\ pc[t] = "done"

\* the call got as far as the scan loop
ReachedLoop(t) == call[t] = "unpack_pak_file" /\ Len(extracted[t]) > 0

AttemptedAt(t) == {attempts[t][i][1] : i \in DOMAIN attempts[t]}
FailedAt(t) == {attempts[t][i][1] : i \in {j \in DOMAIN attempts[t] : ~attempts[t][j][2]}}

\* C1: a call that reached the scan loop returns success and has entered the
\* try block at every occurrence of the pattern in the data, whichever of the
\* entries failed.
C1_FailureNeverAborts ==
    \A t \in Threads :
        (PakDone(t) /\ ReachedLoop(t)) =>
            /\ result[t].success = TRUE
            /\ AttemptedAt(t) = Occurrences(data[t], search_bytes)

\* a returned call whose first entry failed and that attempted a later one
C1_Witness ==
    \E t \in Threads :
        /\ PakDone(t)
        /\ Len(attempts[t]) >= 2
        /\ ~attempts[t][1][2]
        /\ result[t].success = TRUE

\* what the returned dict says of failed entries: it has no such key
ReportedFailures(r) == IF "failures" \in DOMAIN r THEN r.failures ELSE {}
ReportedFailed(r) == IF "failed" \in DOMAIN r THEN r.failed ELSE 0

\* C2: the report of a batch accounts for every entry attempted (attempted =
\* succeeded + failed) and names every entry whose extraction failed.
C2_ReportNamesEveryFailure ==
    \A t \in Threads :
        (PakDone(t) /\ ReachedLoop(t)) =>
            /\ Len(attempts[t]) = (result[t].files_extracted - 1) + ReportedFailed(result[t])
            /\ FailedAt(t) \subseteq ReportedFailures(result[t])

\* C3: no step of any call changes the bytes of the input file.
C3_InputNeverMutated ==
    [][(filepath \in DOMAIN fs' /\ fs'[filepath] = fs[filepath])]_vars

\* C4: when unpack_pak_file has returned success=False and no other call has
\* run, no directory and no file has been created or modified.
C4_FailedCallLeavesNothing ==
    \A t \in Threads :
        (PakDone(t) /\ result[t].success = FALSE /\ pc[Other(t)] = "idle") =>
            /\ dirs = {filepath[1]}
            /\ DOMAIN fs = {filepath}

\* the elements of a set of numbers in increasing order
RECURSIVE InOrder(_)
InOrder(S) == IF S = {} THEN <<>> ELSE <<MinOf(S)>> \o InOrder(S \ {MinOf(S)})

\* the entries of a returned file_list: all but _pak_info.txt
EntryFiles(r) == {r.file_list[i] : i \in 2 .. Len(r.file_list)}

\* both calls returned the same file_list, and every entry file held the
\* same bytes when the one and when the other returned
SameOutcome ==
    /\ result[1].file_list = result[2].file_list
    /\ \A name \in EntryFiles(result[1]) :
          outAtReturn[1][<<OutDir, name>>] = outAtReturn[2][<<OutDir, name>>]

BothSucceeded == result[1].success = TRUE /\ result[2].success = TRUE

\* unpack_pak_file was run twice, the second time after the first had
\* returned, read the same bytes both times and returned success both times
RanTwice ==
    /\ PakDone(1) /\ PakDone(2)
    /\ startedAfter[1] \/ startedAfter[2]
    /\ data[1] = data[2]
    /\ BothSucceeded

\* no entry's open or write raised in call t
NoFailure(t) == result[t].success = TRUE /\ FailedAt(t) = {}

RangeInside(d, p) ==
    /\ 0 <= ChunkStart(d, p)
    /\ ChunkStart(d, p) <= p
    /\ p < ChunkEnd(d, p)
    /\ ChunkEnd(d, p) <= Len(d)
    /\ ChunkEnd(d, p) - ChunkStart(d, p) <= ChunkBefore + ChunkAfter
    /\ Len(Chunk(d, p)) = ChunkEnd(d, p) - ChunkStart(d, p)

\* C6: for every entry, 0 <= start <= match position < end <= len(data), and
\* the chunk written is end - start <= 2000 bytes long.
C6_RangeInsideArchive ==
    \A t \in Threads :
        /\ pc[t] = "write" => RangeInside(data[t], pos[t])
        /\ \A p \in AttemptedAt(t) : RangeInside(data[t], p)

\* an entry whose start is not clamped to 0 and whose end is clamped to len(data)
C6_Witness ==
    \E t \in Threads :
        /\ pc[t] = "write"
        /\ ChunkStart(data[t], pos[t]) > 0
        /\ pos[t] + ChunkAfter > Len(data[t])

\* C7: once the cancellation signal is raised, a call that stands between two
\* entries starts no further entry.
C7_CancelStopsExtraction ==
    [][\A t \in Threads :
          (cancelRequested /\ pc[t] = "scan") =>
              (pc'[t] # "write" /\ attempts'[t] = attempts[t])]_vars

\* no other call ran while call t did
Alone(t) == pc[Other(t)] = "idle" \/ startedAfter[t]

\* [_pak_info.txt, file_1.uasset, ..., file_n.uasset]
RECURSIVE ExpectedList(_)
ExpectedList(n) ==
    IF n = 0 THEN <<"_pak_info.txt">>
    ELSE Append(ExpectedList(n - 1), "file_" \o ToString(n) \o ".uasset")

\* data[max(0, p - 500) : min(len(data), p + 1500)]
ExpectedBytes(d, p) ==
    SubSeq(d, (IF p - 500 > 0 THEN p - 500 ELSE 0) + 1,
              IF p + 1500 < Len(d) THEN p + 1500 ELSE Len(d))

RanConcurrently ==
    /\ PakDone(1) /\ PakDone(2)
    /\ ~startedAfter[1] /\ ~startedAfter[2]
    /\ data[1] = data[2]
    /\ BothSucceeded

\* the entry files of the output directory are those of a single run, and
\* both calls returned that run's file_list
AsSingleRun ==
    LET occ == InOrder(Occurrences(data[1], search_bytes))
    IN  /\ result[1].file_list = ExpectedList(Len(occ))
        /\ result[2].file_list = ExpectedList(Len(occ))
        /\ \A q \in DOMAIN fs :
              (q[1] = OutDir /\ q # filepath) => q[2] \in EntryFiles(result[1]) \cup {InfoName}
        /\ \A k \in 1 .. Len(occ) :
              fs[<<OutDir, ExpectedList(k)[k + 1]>>] = ExpectedBytes(data[1], occ[k])

ScanAdvances(t) ==
    /\ Len(attempts[t]) <= Len(data[t])
    /\ \A i \in 1 .. (Len(attempts[t]) - 1) : attempts[t][i][1] < attempts[t][i + 1][1]
    /\ (pc[t] = "scan" /\ attempts[t] # <<>>) =>
          pos[t] > attempts[t][Len(attempts[t])][1]
    /\ (pc[t] = "write" /\ attempts[t] # <<>>) =>
          pos[t] > attempts[t][Len(attempts[t])][1]

\* C10: the scan position strictly increases from pass to pass of the loop,
\* failed entries included, the loop body runs at most len(data) times, and a
\* call that is in the loop eventually returns.
C10_ScanTerminates ==
    /\ [](\A t \in Threads : ScanAdvances(t))
    /\ \A t \in Threads : (pc[t] = "scan") ~> (pc[t] = "done")

\* a call that returned after three passes of the loop, one of them failed
C10_Witness ==
    \E t \in Threads :
        /\ PakDone(t)
        /\ Len(attempts[t]) = 3
        /\ FailedAt(t) # {}

\* unpack_uasset_file has returned success in call t
UaDone(t) ==
    call[t] = "unpack_uasset_file" /\ pc[t] = "done" /\ result[t].success = TRUE

\* the first bytes of the maximal runs of printable bytes of d
RunStarts(d) ==
    {a \in 1 .. Len(d) : Printable(d[a]) /\ (a = 1 \/ ~Printable(d[a - 1]))}

\* the last byte of the maximal run that starts at a
RunEnd(d, a) ==
    CHOOSE b \in a .. Len(d) :
        /\ \A k \in a .. b : Printable(d[k])
        /\ b = Len(d) \/ ~Printable(d[b + 1])

\* the maximal runs of at least 4 printable bytes of d, in order of
\* occurrence, those of `starts` only
RunsFrom(d, starts) ==
    LET long == InOrder({a \in starts : RunEnd(d, a) - a + 1 >= MinStringLen})
    IN  [n \in 1 .. Len(long) |-> SubSeq(d, long[n], RunEnd(d, long[n]))]

MaximalRuns(d) == RunsFrom(d, RunStarts(d))

\* the runs that a byte outside 32..126 follows
ClosedRuns(d) == RunsFrom(d, {a \in RunStarts(d) : RunEnd(d, a) < Len(d)})

\* the strings listed in the analysis file of a file of bytes d
ListedStrings == fs[<<UaDir, AnalysisName(filepath)>>].strings

FirstStrings(runs) == SubSeq(runs, 1, Min2(MaxStrings, Len(runs)))

\* C11: the strings unpack_uasset_file lists are the maximal runs of at least
\* 4 printable bytes (32..126) of the file (the first 20 of them), each once
\* and in order of occurrence, wherever they lie, a run that reaches the last
\* byte included.
C11_CollectsEveryRun ==
    \A t \in Threads :
        UaDone(t) => ListedStrings = FirstStrings(MaximalRuns(data[t]))

\* what the loop does collect: the runs that a byte outside 32..126 follows
CollectsClosedRuns ==
    \A t \in Threads :
        UaDone(t) => ListedStrings = FirstStrings(ClosedRuns(data[t]))

\* a returned call on a file with a run in the middle and a run at its end
TwoRunsListedOne ==
    /\ UaDone(1)
    /\ Len(MaximalRuns(data[1])) = 2
    /\ Len(ListedStrings) = 1

====
